---- MODULE Spec2Model ----
(***************************************************************************)
(* A model of the thaterror core: family construction (That / defineError),*)
(* the case factories and the error instances they produce, with/is, and   *)
(* the enroll / bridge / from gateway.                                     *)
(*                                                                         *)
(* The repository holds three versions of the family constructor:          *)
(*   "That"         unnamed/part_001 lines 19-89   (instances have with/is)*)
(*   "ThatOptions"  unnamed/part_001 lines 134-174 (trailing options bag)  *)
(*   "defineError"  packages/core/src/define.ts                            *)
(* The variable `variant` says which of them the program under study links.*)
(***************************************************************************)
EXTENDS Integers, Sequences, FiniteSets, TLC

VARIABLES
    variant,    \* which family constructor the program uses
    argv,       \* the argument list the program passes to the cases it invokes
    probe,      \* the foreign Error object the program has caught
    symbols,    \* number of Symbol() allocations made so far
    families,   \* the families built so far, in construction order
    views,      \* family views (a family plus its enrollment table)
    heap,       \* the error instances allocated so far; a reference is an index
    calls,      \* history: one record per Case invocation that returned an instance
    received,   \* the copy of an instance most recently rebuilt from serialized data
    last        \* outcome of the most recent operation

vars == <<variant, argv, probe, symbols, families, views, heap, calls, received, last>>

----------------------------------------------------------------------------
(* Bounds of the model *)

MaxFamilies == 2
MaxHeap == 2
\* enroll / bridge calls made by the program
MaxExtensions == 2

----------------------------------------------------------------------------
(* JavaScript values that flow through the library *)

Undefined == [t |-> "undefined", v |-> 0]
Null == [t |-> "null", v |-> 0]
Num(n) == [t |-> "number", v |-> n]
\* a plain object; v = 0: no cause property, v = k > 0: { cause: <foreign error k> }
Obj(k) == [t |-> "object", v |-> k]
Arr == [t |-> "array", v |-> 0]
\* a reference to the foreign (non-family) Error object number k
ForeignRef(k) == [t |-> "foreign", v |-> k]

\* typeof x === "object"
TypeofObject(x) == x.t \in {"object", "array", "null", "foreign"}

\* Array.isArray(x)
IsArray(x) == x.t = "array"

\* options?.cause, and the cause that `new Error(message, options)` installs
CauseOf(options) ==
    IF options.t = "object" /\ options.v > 0 THEN ForeignRef(options.v) ELSE Undefined

\* args[i], undefined when out of range
At(args, i) == IF i \in 1..Len(args) THEN args[i] ELSE Undefined

\* args.slice(0, -1)
DropLast(args) == SubSeq(args, 1, Len(args) - 1)

----------------------------------------------------------------------------
(* Error schemas *)

StringSpec(text) == [kind |-> "string", text |-> text, length |-> 0]
FunctionSpec(text, n) == [kind |-> "function", text |-> text, length |-> n]
\* a schema entry that is neither a string nor a function (untyped caller)
InvalidSpec == [kind |-> "invalid", text |-> "", length |-> 0]

AppSchema ==
    [k \in {"Unauthorized", "NotFound", "DatabaseError"} |->
        CASE k = "Unauthorized" -> StringSpec("You are not logged in")
          [] k = "NotFound" -> FunctionSpec("Resource ${id} not found", 1)
          [] k = "DatabaseError" -> FunctionSpec("Query failed: ${query} (timeout: ${timeout}ms)", 2)]

OtherSchema ==
    [k \in {"NotFound", "Corrupt"} |->
        CASE k = "NotFound" -> FunctionSpec("missing ${id}", 1)
          [] k = "Corrupt" -> InvalidSpec]

Schemas == {AppSchema, OtherSchema}

\* spec(...args): the template with its declared parameters bound to the
\* leading arguments (missing ones are undefined, extra ones are not seen)
ApplySpec(spec, args) ==
    [template |-> spec.text, bound |-> [i \in 1..spec.length |-> At(args, i)]]

\* a literal message
Literal(text) == [template |-> text, bound |-> <<>>]

----------------------------------------------------------------------------
(* Error instances *)

EmptyMeta == [k \in {} |-> 0]

\* {...a, ...b}
Spread(a, b) ==
    [k \in (DOMAIN a) \cup (DOMAIN b) |-> IF k \in DOMAIN b THEN b[k] ELSE a[k]]

\* the constructor that does not store its args
InternalBaseErrorNoArgs(klass, code, args, scope, message, options) ==
    [klass |-> klass,
     brand |-> TRUE,
     name |-> code,
     code |-> code,
     scope |-> scope,
     codeField |-> code,
     scopeField |-> scope,
     payloadField |-> <<>>,
     metaField |-> [k \in {} |-> 0],
     message |-> message,
     cause |-> IF klass = "That" THEN Undefined ELSE CauseOf(options)]

\* new InternalBaseError(...): the three constructors differ only in where the
\* cause comes from (none in "That"; the options bag in the two others) and in
\* whether the instance carries metadata and the with/is methods.
InternalBaseError(klass, code, args, scope, message, options) ==
    [klass |-> klass,
     brand |-> TRUE,
     name |-> code,
     code |-> code,
     scope |-> scope,
     codeField |-> code,
     scopeField |-> scope,
     payloadField |-> args,
     metaField |-> EmptyMeta,
     message |-> message,
     cause |-> IF klass = "That" THEN Undefined ELSE CauseOf(options)]

\* what a factory call produces: an instance, a thrown Error, or undefined
Returned(inst) == [outcome |-> "return", inst |-> <<inst>>]
Thrown == [outcome |-> "throw", inst |-> <<>>]
ReturnedUndefined == [outcome |-> "undefined", inst |-> <<>>]

\* the factory with a run-time arity check in front of the spec call
factoryThatChecked(spec, key, scope, args) ==
    IF spec.kind = "function"
    THEN IF Len(args) # spec.length
         THEN Thrown
         ELSE Returned(InternalBaseError("That", key, args, scope, ApplySpec(spec, args), Undefined))
    ELSE IF spec.kind = "string"
    THEN Returned(InternalBaseError("That", key, args, scope, Literal(spec.text), Undefined))
    ELSE Thrown

\* the factory of That (first version)
factoryThat(spec, key, scope, args) ==
    IF spec.kind = "function"
    THEN Returned(InternalBaseError("That", key, args, scope, ApplySpec(spec, args), Undefined))
    ELSE IF spec.kind = "string"
    THEN Returned(InternalBaseError("That", key, args, scope, Literal(spec.text), Undefined))
    ELSE Thrown

\* the options-bag test written with >= : a full payload loses its last object
factoryThatOptionsAtLeast(spec, key, scope, args) ==
    IF spec.kind = "function"
    THEN LET lastArg == At(args, Len(args))
             strip == /\ Len(args) >= spec.length
                      /\ lastArg.t # "null" /\ TypeofObject(lastArg) /\ ~IsArray(lastArg)
             options == IF strip THEN lastArg ELSE Undefined
             finalArgs == IF strip THEN DropLast(args) ELSE args
         IN Returned(InternalBaseError("ThatOptions", key, finalArgs, scope,
                                       ApplySpec(spec, finalArgs), options))
    ELSE IF spec.kind = "string"
    THEN Returned(InternalBaseError("ThatOptions", key, <<>>, scope,
                                    Literal(spec.text), At(args, 1)))
    ELSE Thrown

\* the factory of That (version with a trailing options bag)
factoryThatOptions(spec, key, scope, args) ==
    IF spec.kind = "function"
    THEN LET lastArg == At(args, Len(args))
             strip == /\ Len(args) > spec.length
                      /\ lastArg.t # "null" /\ TypeofObject(lastArg) /\ ~IsArray(lastArg)
             options == IF strip THEN lastArg ELSE Undefined
             finalArgs == IF strip THEN DropLast(args) ELSE args
         IN Returned(InternalBaseError("ThatOptions", key, finalArgs, scope,
                                       ApplySpec(spec, finalArgs), options))
    ELSE IF spec.kind = "string"
    THEN Returned(InternalBaseError("ThatOptions", key, <<>>, scope,
                                    Literal(spec.text), At(args, 1)))
    ELSE Thrown

\* the factory of defineError
factoryDefineError(spec, key, scope, args) ==
    IF spec.kind = "function"
    THEN LET lastArg == At(args, Len(args))
             strip == /\ Len(args) > spec.length
                      /\ TypeofObject(lastArg) /\ lastArg.t # "null"
             options == IF strip THEN lastArg ELSE Undefined
             finalArgs == IF strip THEN DropLast(args) ELSE args
         IN Returned(InternalBaseError("defineError", key, finalArgs, scope,
                                       ApplySpec(spec, finalArgs), options))
    ELSE IF spec.kind = "string"
    THEN Returned(InternalBaseError("defineError", key, <<>>, scope,
                                    Literal(spec.text), At(args, 1)))
    ELSE ReturnedUndefined

factory(ctor, spec, key, scope, args) ==
    CASE ctor = "That" -> factoryThat(spec, key, scope, args)
      [] ctor = "ThatOptions" -> factoryThatOptions(spec, key, scope, args)
      [] ctor = "defineError" -> factoryDefineError(spec, key, scope, args)

\* a registry symbol (Symbol.for): the same token at every call
SymbolShared(allocated) == 1

\* Symbol(): a token different from every token allocated before
Symbol(allocated) == allocated + 1

\* the Case object of family f for schema key `key`: the factory closure
\* tagged with [CodeField] and [ScopeField]
CaseOf(f, key) ==
    [family |-> f,
     codeField |-> key,
     scopeField |-> families[f].scope,
     spec |-> families[f].schema[key]]

Cases == {CaseOf(f, key) : <<f, key>> \in
            UNION {{<<g, k>> : k \in DOMAIN families[g].schema} : g \in DOMAIN families}}

\* is comparing the scope tokens instead of the codes
isByScope(inst, errorCase) == inst.scopeField = errorCase.scopeField

\* instance.is(errorCase)
is(inst, errorCase) == inst.codeField = errorCase.codeField

\* with spreading all of options over the instance, the tags included
withAssign(inst, options, meta) ==
    [inst EXCEPT !.cause = CauseOf(options),
                 !.metaField = Spread(inst.metaField, meta),
                 !.code = "Error", !.codeField = "Error",
                 !.scope = 0, !.scopeField = 0]

\* instance.with(options, meta): the instance after the call
with(inst, options, meta) ==
    [inst EXCEPT !.cause = CauseOf(options),
                 !.metaField = Spread(inst.metaField, meta)]

\* the classes whose instances have the with / is methods
HasWith(inst) == inst.klass = "That"
HasIs(inst) == inst.klass \in {"That", "ThatOptions"}

\* scopeOf(target)
scopeOfFamily(f) == families[f].scope
scopeOfError(ref) == heap[ref].scopeField
scopeOfCase(errorCase) == errorCase.scopeField

scopeOf(kind, target) ==
    CASE kind = "function" -> scopeOfCase(target)
      [] kind = "error" -> scopeOfError(target)
      [] kind = "object" -> scopeOfFamily(target)

\* payloadOf(instance), codeOf(instance)
payloadOf(ref) == heap[ref].payloadField
codeOf(ref) == heap[ref].codeField

----------------------------------------------------------------------------
(* Values seen by the free identity checks is / isDefinedError *)

\* what the checks read of a value: whether it is an Error object, whether it
\* has the ErrorBrand key and what is stored there, its name, whether its code
\* is a string and its scope a symbol; `from` is the instance it stems from
Seen(isError, hasBrand, name, codeIsString, scopeIsSymbol, from) ==
    [isError |-> isError, hasBrand |-> hasBrand, brand |-> hasBrand, name |-> name,
     codeIsString |-> codeIsString, scopeIsSymbol |-> scopeIsSymbol, from |-> from]

NotReceived == Seen(FALSE, FALSE, "", FALSE, FALSE, 0)

\* an instance of this process, as the checks see it
Live(ref) == Seen(TRUE, heap[ref].brand, heap[ref].name, TRUE, TRUE, ref)

\* the ways a copy of an instance arrives without its in-process tokens
RehydrateWays == {"json", "clone", "assign"}

\* the copy of instance ref rebuilt on the receiving side: symbol-keyed slots
\* and symbol values never travel.
\*   "json":   JSON.parse(JSON.stringify(e)), a plain object with name and code
\*   "clone":  structuredClone(e), an Error named "Error" without own fields
\*   "assign": Object.assign(new Error(), parsed), an Error with name and code
Rehydrate(ref, way) ==
    CASE way = "json" -> Seen(FALSE, FALSE, heap[ref].name, TRUE, FALSE, ref)
      [] way = "clone" -> Seen(TRUE, FALSE, "Error", FALSE, FALSE, ref)
      [] way = "assign" -> Seen(TRUE, FALSE, heap[ref].name, TRUE, FALSE, ref)

\* factory.code: no factory of the repository sets a `code` property on the
\* case (they set [CodeField]), so the read gives undefined
FactoryCode(errorCase) == [defined |-> FALSE, value |-> ""]

\* the free function is(error, factory)
isFn(error, errorCase) ==
    IF ~error.isError \/ ~error.hasBrand
    THEN FALSE
    ELSE FactoryCode(errorCase).defined /\ error.name = FactoryCode(errorCase).value

\* a check by shape: an Error with a string code
isDefinedErrorByShape(e) == e.isError /\ e.codeIsString

\* isDefinedError(e)
isDefinedError(e) ==
    IF ~e.isError
    THEN FALSE
    ELSE e.hasBrand /\ e.brand = TRUE /\ e.codeIsString /\ e.scopeIsSymbol

\* thaterrorHooks.logMethod: how the first log argument is passed on
logMethod(err) == IF isDefinedError(err) THEN "thaterror" ELSE "asis"

----------------------------------------------------------------------------
(* Inputs *)

Variants == {"That", "ThatOptions", "defineError"}

ArgLists ==
    { <<>>,
      <<Num(7)>>,
      <<Num(0), Num(7)>>,
      <<Num(7), Obj(1)>>,
      <<Num(7), Arr>> }

WithOptions == {Undefined, Obj(0), Obj(1)}
WithMetas == {EmptyMeta, [k \in {"requestId"} |-> 1]}

----------------------------------------------------------------------------
(* Operations *)

\* what `last` records: the operation, how it ended, the reference it returned
\* (0: none), the view it was called on (0: none), its argument, and the cause
\* the receiver had before the call
Outcome(op, outcome, ref, on, arg, before) ==
    [op |-> op, outcome |-> outcome, ref |-> ref, on |-> on, arg |-> arg, before |-> before]

InitOf(ctors, lists, caught) ==
    /\ variant \in ctors
    /\ argv \in lists
    /\ probe \in caught
    /\ symbols = 0
    /\ families = <<>>
    /\ views = <<>>
    /\ heap = <<>>
    /\ calls = <<>>
    /\ received = NotReceived
    /\ last = Outcome("init", "return", 0, 0, Undefined, Undefined)

Init == InitOf(Variants, ArgLists, {1})

\* the family object That / defineError builds, and the view
\* createFamilyInstance(cases, scope, []) returns for it
Family(ctor, map, scope) == [ctor |-> ctor, schema |-> map, scope |-> scope]
BaseView(f, scope) == [family |-> f, scopeField |-> scope, table |-> <<>>, parent |-> 0]

\* That(map) / defineError(map)
That(map) ==
    /\ Len(families) < MaxFamilies
    /\ LET scope == Symbol(symbols)
           f == Len(families) + 1
       IN /\ symbols' = scope
          /\ families' = Append(families, Family(variant, map, scope))
          /\ views' = IF variant = "defineError"
                      THEN views
                      ELSE Append(views, BaseView(f, scope))
          /\ last' = Outcome("That", "return", f, 0, Undefined, Undefined)
    /\ UNCHANGED <<received, variant, argv, probe, heap, calls>>

\* family[key](...argv)
Invoke(f, key) ==
    /\ f \in DOMAIN families
    /\ key \in DOMAIN families[f].schema
    /\ Len(heap) < MaxHeap
    /\ LET fam == families[f]
           r == factory(fam.ctor, fam.schema[key], key, fam.scope, argv)
           ref == Len(heap) + 1
       IN IF r.outcome = "return"
          THEN /\ heap' = Append(heap, r.inst[1])
               /\ calls' = Append(calls, [family |-> f, key |-> key, args |-> argv, ref |-> ref])
               /\ last' = Outcome("Invoke", "return", ref, 0, Undefined, Undefined)
          ELSE /\ UNCHANGED <<heap, calls>>
               /\ last' = Outcome("Invoke", r.outcome, 0, 0, Undefined, Undefined)
    /\ UNCHANGED <<received, variant, argv, probe, symbols, families, views>>

\* heap[ref].with(options, meta); `last` keeps the options passed and the
\* cause the instance had before the call
With(ref, options, meta) ==
    /\ ref \in DOMAIN heap
    /\ HasWith(heap[ref])
    /\ heap' = [heap EXCEPT ![ref] = with(heap[ref], options, meta)]
    /\ last' = Outcome("with", "return", ref, 0, options, heap[ref].cause)
    /\ UNCHANGED <<received, variant, argv, probe, symbols, families, views, calls>>

Keys == {"Unauthorized", "NotFound", "DatabaseError", "Corrupt"}

\* the program builds families, invokes their cases and chains
\* .with({cause: probe}) on the errors it made
Next ==
    \/ \E map \in Schemas : That(map)
    \/ \E f \in 1..MaxFamilies, key \in Keys : Invoke(f, key)
    \/ \E ref \in 1..MaxHeap : With(ref, Obj(probe), EmptyMeta)

Spec == Init /\ [][Next]_vars

\* the state after `const AppError = That(AppSchema)` at module load
InitBuilt(ctors, lists, caught) ==
    /\ variant \in ctors
    /\ argv \in lists
    /\ probe \in caught
    /\ symbols = Symbol(0)
    /\ families = <<Family(variant, AppSchema, Symbol(0))>>
    /\ views = IF variant = "defineError" THEN <<>> ELSE <<BaseView(1, Symbol(0))>>
    /\ heap = <<>>
    /\ calls = <<>>
    /\ received = NotReceived
    /\ last = Outcome("That", "return", 1, 0, Undefined, Undefined)

\* the program uses the first version of That on the README schema and calls
\* .with with every shape of options and metadata on the errors it made
InitWith == InitBuilt({"That"}, {<<Num(7)>>}, {1})

NextWith ==
    \/ \E key \in Keys : Invoke(1, key)
    \/ \E ref \in 1..MaxHeap, options \in WithOptions, meta \in WithMetas :
          With(ref, options, meta)

SpecWith == InitWith /\ [][NextWith]_vars

----------------------------------------------------------------------------
(* Foreign errors and the enrollment registry (createFamilyInstance) *)

NaN == [t |-> "NaN", v |-> 0]

\* the foreign Error objects of the program: number -> class and fields
ForeignObject(k) ==
    CASE k = 1 -> [class |-> "LegacyNotFound", legacyId |-> "7", status |-> 0]
      [] k = 2 -> [class |-> "LegacyGone", legacyId |-> "123", status |-> 0]
      [] k = 3 -> [class |-> "HttpError", legacyId |-> "", status |-> 404]
      [] k = 4 -> [class |-> "HttpError", legacyId |-> "", status |-> 999]

Foreign == {1, 2, 3, 4}

\* the classes an object of class c is an instance of (c and its ancestors);
\* LegacyGone extends LegacyNotFound
ClassChain(c) ==
    CASE c = "LegacyGone" -> {"LegacyGone", "LegacyNotFound", "Error"}
      [] c = "LegacyNotFound" -> {"LegacyNotFound", "Error"}
      [] c = "HttpError" -> {"HttpError", "Error"}
      [] OTHER -> {"Error"}

\* e instanceof errorClass
InstanceOf(e, errorClass) == errorClass \in ClassChain(ForeignObject(e).class)

\* Number(text)
NumberOf(text) ==
    CASE text = "7" -> Num(7)
      [] text = "123" -> Num(123)
      [] OTHER -> NaN

\* the transformers the program passes to enroll; "none": no transformer
Transform(transformer, e) ==
    IF transformer = "byLegacyId"
    THEN <<NumberOf(ForeignObject(e).legacyId)>>
    ELSE <<>>

\* the dispatcher the program passes to bridge: the case it calls, and with what
Dispatch(dispatcher, e) ==
    IF ForeignObject(e).status = 404
    THEN [key |-> "NotFound", args |-> <<Num(0)>>]
    ELSE [key |-> "Unauthorized", args |-> <<>>]

EnrollEntry(errorClass, key, transformer) ==
    [kind |-> "enroll", errorClass |-> errorClass, target |-> key,
     transformer |-> transformer, dispatcher |-> "none"]

BridgeEntry(errorClass, dispatcher) ==
    [kind |-> "bridge", errorClass |-> errorClass, target |-> "",
     transformer |-> "none", dispatcher |-> dispatcher]

\* the extension writes the entry into the view it was called on as well
ExtendInPlace(vs, v, entry) ==
    Append([vs EXCEPT ![v].table = Append(@, entry)],
           [family |-> vs[v].family, scopeField |-> vs[v].scopeField,
            table |-> Append(vs[v].table, entry), parent |-> v])

\* the views after view v was extended by one entry: a new view holding a copy
\* of v's table plus the entry; v itself is left as it was
Extend(vs, v, entry) ==
    Append(vs, [family |-> vs[v].family, scopeField |-> vs[v].scopeField,
                table |-> Append(vs[v].table, entry), parent |-> v])

\* the entries of the table are tested from the newest (index i) down to the
\* oldest; the result is the index of the first that matches, 0 when none does
RECURSIVE Scan(_, _, _)
Scan(table, i, e) ==
    IF i = 0 THEN 0
    ELSE IF InstanceOf(e, table[i].errorClass) THEN i
    ELSE Scan(table, i - 1, e)

\* the lookup taking the oldest matching entry instead of the newest
ResolveOldest(table, e) ==
    LET m == {j \in DOMAIN table : InstanceOf(e, table[j].errorClass)}
    IN IF m = {} THEN 0 ELSE CHOOSE j \in m : \A k \in m : j <= k

\* the lookup falling back to the newest entry when none matches
ResolveFallback(table, e) ==
    IF Scan(table, Len(table), e) = 0 THEN Len(table) ELSE Scan(table, Len(table), e)

\* the index of the entry from uses for e; 0: not registered
Resolve(table, e) == Scan(table, Len(table), e)

\* from(e) on view: the case the resolved entry calls and its arguments
Handler(entry, e) ==
    IF entry.kind = "enroll"
    THEN [key |-> entry.target, args |-> Transform(entry.transformer, e)]
    ELSE Dispatch(entry.dispatcher, e)

\* attaching the foreign error as the cause of the instance
AttachCause(inst, e) == [inst EXCEPT !.cause = ForeignRef(e)]

\* from(e) on view: a thrown "not registered" error when no entry matches,
\* else what the resolved entry produces
FromResult(view, e) ==
    LET i == Resolve(view.table, e)
        fam == families[view.family]
    IN IF i = 0 THEN Thrown
       ELSE LET h == Handler(view.table[i], e)
            IN IF h.key \notin DOMAIN fam.schema THEN Thrown
               ELSE LET r == factory(fam.ctor, fam.schema[h.key], h.key, fam.scope, h.args)
                    IN IF r.outcome = "return" /\ view.table[i].kind = "enroll"
                       THEN Returned(AttachCause(r.inst[1], e))
                       ELSE r

Extensions == Len(SelectSeq(views, LAMBDA w : w.parent # 0))

\* views[v].enroll(errorClass, families[f][key], transformer)
Enroll(v, errorClass, f, key, transformer) ==
    /\ v \in DOMAIN views
    /\ f \in DOMAIN families
    /\ key \in DOMAIN families[f].schema
    /\ Extensions < MaxExtensions
    /\ LET errorCase == CaseOf(f, key)
           ok == /\ errorCase.scopeField = views[v].scopeField
                 /\ errorCase.spec.kind = "function" /\ errorCase.spec.length > 0
                        => transformer # "none"
       IN IF ok
          THEN /\ views' = Extend(views, v, EnrollEntry(errorClass, key, transformer))
               /\ last' = Outcome("enroll", "return", Len(views) + 1, v, Undefined, Undefined)
          ELSE /\ UNCHANGED views
               /\ last' = Outcome("enroll", "throw", 0, v, Undefined, Undefined)
    /\ UNCHANGED <<received, variant, argv, probe, symbols, families, heap, calls>>

\* views[v].bridge(errorClass, dispatcher)
Bridge(v, errorClass, dispatcher) ==
    /\ v \in DOMAIN views
    /\ Extensions < MaxExtensions
    /\ views' = Extend(views, v, BridgeEntry(errorClass, dispatcher))
    /\ last' = Outcome("bridge", "return", Len(views) + 1, v, Undefined, Undefined)
    /\ UNCHANGED <<received, variant, argv, probe, symbols, families, heap, calls>>

\* views[v].from(probe)
From(v) ==
    /\ v \in DOMAIN views
    /\ Len(heap) < MaxHeap
    /\ LET r == FromResult(views[v], probe)
           ref == Len(heap) + 1
       IN IF r.outcome = "return"
          THEN /\ heap' = Append(heap, r.inst[1])
               /\ calls' = Append(calls, [family |-> views[v].family, key |-> r.inst[1].codeField,
                                          args |-> r.inst[1].payloadField, ref |-> ref])
               /\ last' = Outcome("from", "return", ref, v, ForeignRef(probe), Undefined)
          ELSE /\ UNCHANGED <<heap, calls>>
               /\ last' = Outcome("from", r.outcome, 0, v, ForeignRef(probe), Undefined)
    /\ UNCHANGED <<received, variant, argv, probe, symbols, families, views>>

\* the enroll calls of the program: class, target case, transformer
EnrollCalls ==
    { <<"LegacyNotFound", "NotFound", "byLegacyId">>,
      <<"LegacyNotFound", "Unauthorized", "none">>,
      <<"LegacyNotFound", "NotFound", "none">> }

\* the program builds one family on the README schema, extends it by enroll
\* and bridge, and sends the error it caught through from
InitGateway == InitBuilt({"That", "ThatOptions"}, {<<Num(42)>>}, Foreign)

NextGateway ==
    \/ \E key \in Keys : Invoke(1, key)
    \/ \E v \in 1..(MaxExtensions + 1), c \in EnrollCalls : Enroll(v, c[1], 1, c[2], c[3])
    \/ \E v \in 1..(MaxExtensions + 1) : Bridge(v, "HttpError", "byStatus")
    \/ \E v \in 1..(MaxExtensions + 1) : From(v)

SpecGateway == InitGateway /\ [][NextGateway]_vars

----------------------------------------------------------------------------
(* Properties of the case factories and of the instances *)

\* the other case names of the family of call c
OtherKeys(c) == (DOMAIN families[c.family].schema) \ {c.key}

\* C1: two invocations of the same case with the same payload return two
\* distinct instances, and every instance a case k returned answers true to
\* is(case k) and false to is(case j) for every other case j of its schema
\* (checked on the instances that have the is method).
C1_FreshAndOwnCase ==
    /\ \A i, j \in DOMAIN calls :
          (i # j /\ calls[i].family = calls[j].family /\ calls[i].key = calls[j].key
                 /\ calls[i].args = calls[j].args)
          => calls[i].ref # calls[j].ref
    /\ \A i \in DOMAIN calls :
          LET c == calls[i] IN
          /\ c.ref \in DOMAIN heap
          /\ HasIs(heap[c.ref]) =>
                /\ is(heap[c.ref], CaseOf(c.family, c.key))
                /\ \A j \in OtherKeys(c) : ~is(heap[c.ref], CaseOf(c.family, j))

C1_Witness ==
    \E i, j \in DOMAIN calls :
        /\ i # j /\ calls[i].family = calls[j].family /\ calls[i].key = calls[j].key
        /\ calls[i].args = calls[j].args
        /\ calls[i].ref # calls[j].ref
        /\ HasIs(heap[calls[i].ref])
        /\ is(heap[calls[j].ref], CaseOf(calls[i].family, calls[i].key))
        /\ OtherKeys(calls[i]) # {}

\* C2: the scope of every instance made by a case of a family F1 is F1's scope
\* and differs from the scope of every other family F2, whatever their schemas.
C2_ScopePerConstruction ==
    \A f1, f2 \in DOMAIN families :
        f1 # f2 =>
            /\ scopeOf("object", f1) # scopeOf("object", f2)
            /\ \A i \in DOMAIN calls :
                  calls[i].family = f1 =>
                      /\ scopeOf("error", calls[i].ref) = scopeOf("object", f1)
                      /\ scopeOf("error", calls[i].ref) # scopeOf("object", f2)

C2_Witness ==
    \E f1, f2 \in DOMAIN families :
        /\ f1 # f2
        /\ families[f1].schema = families[f2].schema
        /\ \E i \in DOMAIN calls :
              /\ calls[i].family = f1
              /\ scopeOf("error", calls[i].ref) # scopeOf("object", f2)
              /\ \E k \in DOMAIN calls : calls[k].family = f2 /\ calls[k].key = calls[i].key

\* C3: in every reachable state every instance a case returned carries the
\* scope of the family owning the case and the code (schema key) of the case,
\* also after with has acted on it.
C3_ScopeAndCodeKept ==
    \A i \in DOMAIN calls :
        LET c == calls[i]
            e == heap[c.ref]
        IN /\ e.scopeField = families[c.family].scope
           /\ e.scope = families[c.family].scope
           /\ e.scopeField = scopeOf("function", CaseOf(c.family, c.key))
           /\ e.codeField = c.key
           /\ e.code = c.key
           /\ e.codeField = CaseOf(c.family, c.key).codeField

C3_Witness ==
    /\ last.op = "with"
    /\ heap[last.ref].cause = ForeignRef(probe)
    /\ \E i \in DOMAIN calls :
          /\ calls[i].ref = last.ref
          /\ heap[last.ref].codeField = calls[i].key
          /\ heap[last.ref].scopeField = families[calls[i].family].scope

\* C4: for a case whose spec function declares two parameters, invoked with
\* two arguments (a, b), payloadOf of the instance is exactly <<a, b>>.
C4_PayloadRoundTrip ==
    \A i \in DOMAIN calls :
        LET c == calls[i]
            spec == families[c.family].schema[c.key]
        IN (spec.kind = "function" /\ spec.length = 2 /\ Len(c.args) = 2)
           => payloadOf(c.ref) = c.args

C4_Witness ==
    \E i \in DOMAIN calls :
        /\ calls[i].key = "DatabaseError"
        /\ calls[i].args = <<Num(7), Obj(1)>>
        /\ variant = "ThatOptions"
        /\ payloadOf(calls[i].ref) = <<Num(7), Obj(1)>>

\* C10: with returns the instance it was called on and sets its cause only
\* when options provides one; a with call without a cause leaves the cause
\* the instance had.
C10_WithKeepsCause ==
    last.op = "with" =>
        /\ last.ref \in DOMAIN heap
        /\ CauseOf(last.arg) # Undefined => heap[last.ref].cause = CauseOf(last.arg)
        /\ CauseOf(last.arg) = Undefined => heap[last.ref].cause = last.before

----------------------------------------------------------------------------
(* Properties of enroll, bridge and from *)

\* the entries of a table that match e: registered for its class or an ancestor
Matching(table, e) == {i \in DOMAIN table : InstanceOf(e, table[i].errorClass)}

Newest(m) == CHOOSE i \in m : \A k \in m : i >= k

\* the entry the last from call resolved (the call returned)
LastEntry == views[last.on].table[Resolve(views[last.on].table, probe)]

FromReturned == last.op = "from" /\ last.outcome = "return"

\* C5: enroll is copy-on-extend. For every view F2 made by F1.enroll(C, case,
\* transformer): F1's table is still what it was when enroll was called, from
\* on F2 returns for every instance of C, and from on F1 throws for it when F1
\* had no entry for it; in every state reached by later enroll, bridge, from
\* and case invocations.
C5_EnrollCopyOnExtend ==
    \A v2 \in DOMAIN views :
        LET v1 == views[v2].parent
            t2 == views[v2].table
            entry == t2[Len(t2)]
            before == SubSeq(t2, 1, Len(t2) - 1)
        IN (v1 # 0 /\ entry.kind = "enroll") =>
              /\ views[v1].table = before
              /\ \A e \in Foreign :
                    ForeignObject(e).class = entry.errorClass =>
                        /\ FromResult(views[v2], e).outcome = "return"
                        /\ Matching(before, e) = {} =>
                               FromResult(views[v1], e).outcome = "throw"

C5_Witness ==
    /\ last.op = "from" /\ last.outcome = "throw" /\ last.on = 1
    /\ \E v2 \in DOMAIN views :
          /\ views[v2].parent = 1
          /\ views[v2].table[Len(views[v2].table)].kind = "enroll"
          /\ views[v2].table[Len(views[v2].table)].errorClass = ForeignObject(probe).class
          /\ \E v3 \in DOMAIN views : views[v3].parent = v2
    /\ \E i \in DOMAIN heap : heap[i].cause = ForeignRef(probe)

\* C6: when from(e) resolves an enroll entry (targetCase, transformer), the
\* instance it returns has the code of targetCase, the payload transformer(e)
\* (empty without a transformer) and e itself as its cause; for the legacy
\* error with legacyId "7" the payload is <<7>>.
C6_EnrollEntryResult ==
    (FromReturned /\ LastEntry.kind = "enroll") =>
        LET inst == heap[last.ref]
            fam == views[last.on].family
        IN /\ codeOf(last.ref) = CaseOf(fam, LastEntry.target).codeField
           /\ inst.code = LastEntry.target
           /\ payloadOf(last.ref) = Transform(LastEntry.transformer, probe)
           /\ LastEntry.transformer = "none" => payloadOf(last.ref) = <<>>
           /\ (LastEntry.transformer = "byLegacyId" /\ probe = 1)
                  => payloadOf(last.ref) = <<Num(7)>>
           /\ inst.cause = ForeignRef(probe)

C6_Witness ==
    /\ FromReturned
    /\ LastEntry.kind = "enroll" /\ LastEntry.transformer = "byLegacyId"
    /\ probe = 1
    /\ codeOf(last.ref) = "NotFound"
    /\ payloadOf(last.ref) = <<Num(7)>>
    /\ heap[last.ref].cause = ForeignRef(1)

\* C7: from(e) on a view whose table has no entry for the class of e or for
\* an ancestor of it throws; it returns nothing and allocates nothing.
C7_FromUnregisteredThrows ==
    /\ \A v \in DOMAIN views, e \in Foreign :
          Matching(views[v].table, e) = {} => FromResult(views[v], e) = Thrown
    /\ (last.op = "from" /\ Matching(views[last.on].table, probe) = {})
          => (last.outcome = "throw" /\ last.ref = 0)

C7_Witness ==
    /\ last.op = "from" /\ last.outcome = "throw"
    /\ views[last.on].table # <<>>
    /\ Matching(views[last.on].table, probe) = {}

\* C8: when from(e) resolves a bridge entry, the instance it returns is the
\* one the dispatcher made, with nothing added: no cause, the payload the
\* dispatcher passed; for status 404 it is a NotFound (and no Unauthorized),
\* for any other status an Unauthorized (and no NotFound).
C8_BridgeResultAsIs ==
    (FromReturned /\ LastEntry.kind = "bridge") =>
        LET inst == heap[last.ref]
            fam == views[last.on].family
            d == Dispatch(LastEntry.dispatcher, probe)
        IN /\ inst.cause = Undefined
           /\ inst.payloadField = d.args
           /\ inst.scopeField = scopeOf("object", fam)
           /\ ForeignObject(probe).status = 404 =>
                 /\ is(inst, CaseOf(fam, "NotFound"))
                 /\ ~is(inst, CaseOf(fam, "Unauthorized"))
                 /\ inst.payloadField = <<Num(0)>>
           /\ ForeignObject(probe).status # 404 =>
                 /\ is(inst, CaseOf(fam, "Unauthorized"))
                 /\ ~is(inst, CaseOf(fam, "NotFound"))
                 /\ inst.payloadField = <<>>

C8_Witness ==
    /\ FromReturned
    /\ LastEntry.kind = "bridge"
    /\ ForeignObject(probe).status = 999
    /\ is(heap[last.ref], CaseOf(views[last.on].family, "Unauthorized"))
    /\ heap[last.ref].cause = Undefined

\* C9: from resolves with the most recently registered entry among those
\* that match: when a class is registered several times along a chain of
\* enroll / bridge calls, the newest registration decides the result.
C9_NewestEntryWins ==
    /\ \A v \in DOMAIN views, e \in Foreign :
          LET m == Matching(views[v].table, e)
          IN m # {} => Resolve(views[v].table, e) = Newest(m)
    /\ FromReturned =>
          LET t == views[last.on].table
              h == Handler(t[Newest(Matching(t, probe))], probe)
          IN /\ codeOf(last.ref) = h.key
             /\ payloadOf(last.ref) = h.args

C9_Witness ==
    /\ FromReturned
    /\ LET t == views[last.on].table
           m == {i \in DOMAIN t : t[i].errorClass = ForeignObject(probe).class}
       IN /\ Cardinality(m) >= 2
          /\ \E i \in m : i < Newest(m) /\ t[i].target # t[Newest(m)].target
          /\ codeOf(last.ref) = t[Newest(m)].target

----------------------------------------------------------------------------
(* Further properties of with, the factories and the identity checks *)

\* C11: a with call, with whatever cause and metadata and however often it is
\* repeated, changes for no instance the answer of is(c) for any Case c, nor
\* the instance's code, scope or payload.
C11_WithKeepsIdentity ==
    [][\A ref \in DOMAIN heap :
           LET a == heap[ref]
               b == heap'[ref]
           IN /\ b.codeField = a.codeField /\ b.code = a.code
              /\ b.scopeField = a.scopeField /\ b.scope = a.scope
              /\ b.payloadField = a.payloadField
              /\ \A c \in Cases : is(b, c) = is(a, c)]_vars

\* a second with call has acted on an instance that already had a cause and
\* now carries metadata, and the instance still reports its own case
C11_Witness ==
    /\ last.op = "with"
    /\ last.before # Undefined
    /\ heap[last.ref].metaField # EmptyMeta
    /\ \E i \in DOMAIN calls :
          /\ calls[i].ref = last.ref
          /\ is(heap[last.ref], CaseOf(calls[i].family, calls[i].key))
          /\ payloadOf(last.ref) = calls[i].args

\* the spec of the case that call c invoked
SpecOfCall(c) == families[c.family].schema[c.key]

\* call c passed a function-spec case a number of arguments other than the
\* declared parameter count
ArityMismatch(c) ==
    SpecOfCall(c).kind = "function" /\ Len(c.args) # SpecOfCall(c).length

\* C12 as claimed: a case whose spec is a function never makes an instance
\* from a number of arguments different from the declared parameter count
\* (such a call throws).
C12_ArityEnforced ==
    \A i \in DOMAIN calls : ~ArityMismatch(calls[i])

\* C12 as amended: no factory checks the arity. A function-spec case invoked
\* with a number of arguments different from the declared parameter count
\* returns an instance of that case and does not throw; the payload is the
\* arguments as passed (less a trailing options object in the two options-bag
\* versions), and the message is the spec applied to that payload, parameters
\* without an argument being undefined.
C12_ArityNotChecked ==
    /\ \A f \in DOMAIN families : \A key \in DOMAIN families[f].schema :
          LET spec == families[f].schema[key] IN
          (spec.kind = "function" /\ Len(argv) # spec.length)
              => factory(families[f].ctor, spec, key, families[f].scope, argv).outcome = "return"
    /\ \A i \in DOMAIN calls :
          LET c == calls[i]
              e == heap[c.ref]
          IN ArityMismatch(c) =>
                /\ e.codeField = c.key
                /\ e.payloadField \in {c.args, DropLast(c.args)}
                /\ e.klass = "That" => e.payloadField = c.args
                /\ e.message = ApplySpec(SpecOfCall(c), e.payloadField)

\* DatabaseError (two parameters) was invoked with one argument and returned
\* an instance whose message has the second parameter undefined
C12_Witness ==
    \E i \in DOMAIN calls :
        /\ calls[i].key = "DatabaseError"
        /\ calls[i].args = <<Num(7)>>
        /\ payloadOf(calls[i].ref) = <<Num(7)>>
        /\ heap[calls[i].ref].message.bound = <<Num(7), Undefined>>

\* a copy of instance ref arrives from another process
Receive(ref, way) ==
    /\ ref \in DOMAIN heap
    /\ received' = Rehydrate(ref, way)
    /\ last' = Outcome("receive", "return", ref, 0, Undefined, Undefined)
    /\ UNCHANGED <<variant, argv, probe, symbols, families, views, heap, calls>>

\* the program builds the README family, makes errors and gets copies of them
\* back from serialized data
InitWire == InitBuilt(Variants, {<<Num(7)>>}, {1})

NextWire ==
    \/ \E key \in Keys : Invoke(1, key)
    \/ \E ref \in 1..MaxHeap, way \in RehydrateWays : Receive(ref, way)

SpecWire == InitWire /\ [][NextWire]_vars

\* C13: a copy of an instance that lost its in-process tokens (no brand and
\* scope symbols, or no Error object) is not recognized: isDefinedError is
\* false for it, is is false for it against every Case, and the log hook
\* passes it on as it is; the checks return a value and do not throw.
C13_RehydratedNotRecognized ==
    received.from # 0 =>
        /\ isDefinedError(received) = FALSE
        /\ \A c \in Cases : isFn(received, c) = FALSE
        /\ logMethod(received) = "asis"

\* an Error copy with the same name and a string code has arrived, while the
\* instance it stems from is recognized
C13_Witness ==
    /\ received.from # 0
    /\ received.isError /\ received.codeIsString
    /\ received.name = heap[received.from].name
    /\ isDefinedError(Live(received.from))
    /\ ~isDefinedError(received)

\* C14: building a family never throws, and a schema entry that is neither a
\* string nor a function is signaled when its Case is invoked: the invocation
\* throws, it does not return a value, undefined included.
C14_InvalidSpecThrows ==
    /\ last.op = "That" => last.outcome = "return"
    /\ last.op = "Invoke" => last.outcome # "undefined"

\* C15: a Case whose spec is a literal string returns, whatever trailing
\* arguments it is invoked with, an instance whose message is the literal and
\* whose payload is empty.
C15_LiteralCaseEmptyPayload ==
    \A i \in DOMAIN calls :
        LET c == calls[i] IN
        SpecOfCall(c).kind = "string" =>
            /\ heap[c.ref].message = Literal(SpecOfCall(c).text)
            /\ payloadOf(c.ref) = <<>>

====
